---- MODULE Spec2Model ----
(***************************************************************************)
(* A model of src/main.py: the scraper's login with retry, the run         *)
(* orchestration of main(), and the reconciliation of the scraped          *)
(* appointments against the managed events of the calendar                 *)
(* (process_calendar_events), together with the calendar gateway and the   *)
(* push notifier as the code uses them.                                    *)
(*                                                                         *)
(* Strings that the code takes apart or glues together (date, studio name, *)
(* regie note, description, clock times) are sequences of one-character    *)
(* strings; the empty string '' is << >>.  Strings that are only compared  *)
(* (address / location) are TLA+ strings.  Instants are integers:          *)
(* day * 10 + hour slot.                                                   *)
(***************************************************************************)
EXTENDS Integers, Sequences, FiniteSets, TLC

\* ------------------------------------------------------------- bounds
\* Rows on the appointments page (the code keeps at most the first 8).
MaxAppts == 2
\* Events on the calendar before the first run.
MaxInitEvents == 2
\* Failing gateway calls or notifier deliveries within one run.
MaxFaults == 1
\* Length of each field in the study of generate_appointment_id.
MaxField == 1

\* ------------------------------------------------- program constants
max_retries == 3

\* ---------------------------------------------------------- strings
RECURSIVE LStrip(_)
LStrip(s) ==
    IF s # << >> /\ Head(s) = " " THEN LStrip(Tail(s)) ELSE s

RECURSIVE RStrip(_)
RStrip(s) ==
    IF s # << >> /\ s[Len(s)] = " " THEN RStrip(SubSeq(s, 1, Len(s) - 1)) ELSE s

\* str.strip(): surrounding whitespace removed.
Strip(s) == RStrip(LStrip(s))

\* ------------------------------------------------------ time localizer
DigitVal == [c \in {"0", "1", "2", "3"} |->
               CASE c = "0" -> 0 [] c = "1" -> 1 [] c = "2" -> 2 [] c = "3" -> 3]

\* Whether strptime accepts the string: one digit here, for DD.MM.YYYY and HH:MM.
Parses(s) == Len(s) = 1 /\ s[1] \in DOMAIN DigitVal

\* datetime.strptime(f"{date} {time}", ...) then tz.localize: the instant.
Localize(date, time) == DigitVal[date[1]] * 10 + DigitVal[time[1]]

\* ------------------------------------------------------ identity
\* A variant that leaves the note out of the hashed string.
generate_appointment_id_NoRegie(appointment) ==
    appointment.date \o <<"_">> \o appointment.studio_name \o <<"_">>

\* The id string that is hashed; md5 is taken as injective, so the digest is
\* represented by the string it is computed from.
generate_appointment_id(appointment) ==
    appointment.date \o <<"_">> \o appointment.studio_name \o <<"_">>
        \o appointment.regie

\* ------------------------------------------------------ scraped rows
Row(d, s, e, studio, addr, regie) ==
    [date |-> d, start_time |-> s, end_time |-> e, studio_name |-> studio,
     address |-> addr, regie |-> regie]

\* The rows the appointments page may show, as parse_appointments returns them:
\* two rows of one identity (same date, studio and note) that differ in time and
\* address, a row of another identity with a note, and a row whose date cell is
\* missing (date = '').
RowA1 == Row(<<"1">>, <<"1">>, <<"2">>, <<"A">>, "X", << >>)
RowA2 == Row(<<"1">>, <<"2">>, <<"3">>, <<"A">>, "Y", << >>)
RowB == Row(<<"2">>, <<"0">>, <<"1">>, <<"B">>, "X", <<"r">>)
RowNoDate == Row(<< >>, <<"1">>, <<"2">>, <<"A">>, "X", << >>)

Rows == {RowA1, RowA2, RowB, RowNoDate}

\* Sequences over S of length at most n.
SeqsUpTo(S, n) == UNION { [1..k -> S] : k \in 0..n }

\* The instants at which a run may start.
Clock == {11, 20}

\* The script is run, and then run once more: the counts of earlier runs at
\* which a run may start.
EarlierRuns == {0, 1}

\* ------------------------------------------------------ calendar events
Event(id, summary, location, description, start, end, marker, aid) ==
    [id |-> id, summary |-> summary, location |-> location,
     description |-> description, start |-> start, end |-> end,
     marker |-> marker, appointment_id |-> aid]

\* A variant of the body that leaves the location out.
Body_NoLocation(appointment, appointment_id) ==
    [summary |-> appointment.studio_name,
     location |-> "",
     description |-> appointment.regie,
     start |-> appointment.start_datetime,
     end |-> appointment.end_datetime,
     marker |-> TRUE,
     appointment_id |-> appointment_id]

\* The request body of insert and update.
Body(appointment, appointment_id) ==
    [summary |-> appointment.studio_name,
     location |-> appointment.address,
     description |-> appointment.regie,
     start |-> appointment.start_datetime,
     end |-> appointment.end_datetime,
     marker |-> TRUE,
     appointment_id |-> appointment_id]

\* The event the gateway stores for a body under a provider id.
Stored(id, body) ==
    Event(id, body.summary, body.location, body.description, body.start,
          body.end, body.marker, body.appointment_id)

NoBody ==
    [summary |-> << >>, location |-> "", description |-> << >>, start |-> 0,
     end |-> 0, marker |-> FALSE, appointment_id |-> << >>]

\* The appointment main() builds from a row it keeps (lines 513-515).
Appointment(row) ==
    [date |-> row.date, start_time |-> row.start_time, end_time |-> row.end_time,
     studio_name |-> row.studio_name, address |-> row.address, regie |-> row.regie,
     start_datetime |-> Localize(row.date, row.start_time),
     end_datetime |-> Localize(row.date, row.end_time),
     appointment_id |-> generate_appointment_id(row)]

\* A row of an earlier day's page that the page no longer shows.
RowGone == Row(<<"1">>, <<"2">>, <<"3">>, <<"C">>, "X", << >>)

\* What may be on the calendar before the first run: the events earlier runs
\* created for rows, and events the owner of the calendar edited or made: an
\* event without the private marker (with an appointment_id all the same), a
\* renamed event, a relocated event, an event whose description was padded or
\* rewritten, a marked event without an appointment_id, and an event moved to
\* an earlier start.
SeedBodies ==
    LET a == Body(Appointment(RowA1), generate_appointment_id(RowA1))
        b == Body(Appointment(RowB), generate_appointment_id(RowB))
        c == Body(Appointment(RowGone), generate_appointment_id(RowGone))
    IN  { a, b, c,
          [a EXCEPT !.marker = FALSE],
          [a EXCEPT !.summary = <<"Z">>],
          [a EXCEPT !.location = "W"],
          [b EXCEPT !.description = <<" ", "r", " ">>],
          [b EXCEPT !.description = <<"q">>],
          [a EXCEPT !.appointment_id = << >>],
          [a EXCEPT !.start = 10] }

\* Provider ids 1..n given to a set of bodies.
WithIds(S) ==
    LET n == Cardinality(S)
        f == CHOOSE g \in [1..n -> S] : \A i, j \in 1..n : g[i] = g[j] => i = j
    IN  { Stored(i, f[i]) : i \in 1..n }

\* ------------------------------------------------------------- state
VARIABLES
    calendar,       \* the events of the remote calendar (every event, marked or not)
    nextId,         \* the provider id the gateway gives to the next inserted event
    site,           \* the rows the appointments page shows
    now,            \* current_date of the run
    run,            \* runs started so far
    pc,             \* where the script is
    attempt,        \* login_with_retry: the loop variable
    sleeps,         \* login_with_retry: calls of time.sleep(retry_delay)
    login_success,  \* main: first component of login_with_retry's result
    appointments,   \* main: second component (<< >> stands for None and for [])
    future_appointments,
    future_events,
    appointment_id_to_appointment,  \* dict, as the sequence of its values in key order
    event_appointment_id_to_event,  \* dict, as a function
    events_to_delete,               \* ids of the delete loop not yet visited
    upsert_idx,                     \* position of the second loop in the dict
    compared,       \* ids for which needs_update was evaluated in this run
    calls,          \* gateway calls of this run: insert, update, delete
    notes,          \* send_push_notification calls of this run
    faults,         \* failed calls and deliveries of this run
    exit,           \* how the run ended
    processCalled,  \* process_calendar_events was entered in this run
    calAtStart,     \* the calendar when this run started
    prev,           \* whether this run repeats a run that returned with every write
                    \* successful, at the same instant; and what that run met and did
    idA, idB,       \* the two appointments of the identity study
    idOut           \* their ids, once computed

vars == <<calendar, nextId, site, now, run, pc, attempt, sleeps, login_success,
          appointments, future_appointments, future_events,
          appointment_id_to_appointment, event_appointment_id_to_event,
          events_to_delete, upsert_idx, compared, calls, notes, faults, exit,
          processCalled, calAtStart, prev, idA, idB, idOut>>

runLocals == <<attempt, sleeps, login_success, appointments, future_appointments,
               future_events, appointment_id_to_appointment,
               event_appointment_id_to_event, events_to_delete, upsert_idx,
               compared, calls, notes, faults, exit, processCalled>>

EmptyMap == [x \in {} |-> NoBody]

NoRow == Row(<< >>, << >>, << >>, << >>, "", << >>)

NoPrev == [clean |-> FALSE, injective |-> FALSE, wrote |-> FALSE]

InitRun ==
    /\ run = 0
    /\ pc = "idle"
    /\ attempt = 0
    /\ sleeps = 0
    /\ login_success = FALSE
    /\ appointments = << >>
    /\ future_appointments = << >>
    /\ future_events = << >>
    /\ appointment_id_to_appointment = << >>
    /\ event_appointment_id_to_event = EmptyMap
    /\ events_to_delete = {}
    /\ upsert_idx = 1
    /\ compared = {}
    /\ calls = << >>
    /\ notes = << >>
    /\ faults = 0
    /\ exit = "none"
    /\ processCalled = FALSE
    /\ prev = NoPrev

Init ==
    /\ \E S \in SUBSET SeedBodies :
         /\ Cardinality(S) <= MaxInitEvents
         /\ calendar = WithIds(S)
         /\ calAtStart = WithIds(S)
         /\ nextId = Cardinality(S) + 1
    /\ site \in SeqsUpTo(Rows, MaxAppts)
    /\ now = 0
    /\ InitRun
    /\ idA = NoRow
    /\ idB = NoRow
    /\ idOut = << >>

\* --------------------------------------------------- login_with_retry
\* The loop variable and the count of sleeps are locals of login_with_retry:
\* they are gone when it returns.
LoginReturn(success, appts) ==
    /\ login_success' = success
    /\ appointments' = appts
    /\ attempt' = 0
    /\ sleeps' = 0
    /\ pc' = "main"

\* One pass of the for loop whose requests all succeed: the rows are returned.
LoginAttemptOk ==
    /\ pc = "login"
    /\ attempt < max_retries
    /\ LoginReturn(TRUE, site)
    /\ UNCHANGED <<calendar, nextId, site, now, run,
                   future_appointments, future_events,
                   appointment_id_to_appointment, event_appointment_id_to_event,
                   events_to_delete, upsert_idx, compared, calls, notes, faults,
                   exit, processCalled, calAtStart, prev, idA, idB, idOut>>

\* A variant of the failed pass that waits after the last pass as well.
LoginAttemptFailed_SleepAlways ==
    /\ attempt' = attempt + 1
    /\ sleeps' = sleeps + 1
    /\ UNCHANGED <<pc, login_success, appointments>>
    /\ UNCHANGED <<calendar, nextId, site, now, run, future_appointments,
                   future_events, appointment_id_to_appointment,
                   event_appointment_id_to_event, events_to_delete, upsert_idx,
                   compared, calls, notes, faults, exit, processCalled,
                   calAtStart, prev, idA, idB, idOut>>

\* What a failed pass does next (lines 163-165 and 198-200): one
\* time.sleep(retry_delay) unless it was the last pass, then the next value of
\* the loop variable.  The pass without a token sleeps at line 164 and skips
\* line 200 by its continue; the other failed passes sleep at line 200.
LoginAttemptFailed ==
    /\ attempt' = attempt + 1
    /\ sleeps' = IF attempt < max_retries - 1 THEN sleeps + 1 ELSE sleeps
    /\ UNCHANGED <<pc, login_success, appointments>>
    /\ UNCHANGED <<calendar, nextId, site, now, run, future_appointments,
                   future_events, appointment_id_to_appointment,
                   event_appointment_id_to_event, events_to_delete, upsert_idx,
                   compared, calls, notes, faults, exit, processCalled,
                   calAtStart, prev, idA, idB, idOut>>

\* Lines 202-203: the loop is over, (False, None) is returned.
LoginExhausted ==
    /\ pc = "login"
    /\ attempt = max_retries
    /\ LoginReturn(FALSE, << >>)
    /\ UNCHANGED <<calendar, nextId, site, now, run,
                   future_appointments, future_events,
                   appointment_id_to_appointment, event_appointment_id_to_event,
                   events_to_delete, upsert_idx, compared, calls, notes, faults,
                   exit, processCalled, calAtStart, prev, idA, idB, idOut>>

\* The page carries no _token input (lines 161-165).
LoginNoToken ==
    /\ pc = "login"
    /\ attempt < max_retries
    /\ LoginAttemptFailed

\* A request raises requests.RequestException (lines 195-200).
LoginRequestError ==
    /\ pc = "login"
    /\ attempt < max_retries
    /\ LoginAttemptFailed

\* The login response does not contain 'Termine' (lines 192-200).
LoginRejected ==
    /\ pc = "login"
    /\ attempt < max_retries
    /\ LoginAttemptFailed

\* ------------------------------------------------------------- main
\* A variant that goes on whatever login_with_retry returned.
MainGate_NoExit(success, appts) == "continue"

\* Lines 489-495: which way main goes after login_with_retry.
MainGate(success, appts) ==
    IF ~success THEN "exit1"
    ELSE IF appts = << >> THEN "exit0"
    ELSE "continue"

RowParses(row) ==
    Parses(row.date) /\ Parses(row.start_time) /\ Parses(row.end_time)

\* Lines 502-516: the appointments that start at current_date or later.
RECURSIVE FutureAppointments(_, _)
FutureAppointments(rows, current_date) ==
    IF rows = << >> THEN << >>
    ELSE LET a == Appointment(Head(rows))
             rest == FutureAppointments(Tail(rows), current_date)
         IN  IF a.start_datetime >= current_date THEN <<a>> \o rest ELSE rest

\* A variant of the list filter that forgets the private marker.
Listed_NoMarker(e, timeMin) == e.end > timeMin

\* events().list: timeMin bounds the end of an event from below, and
\* privateExtendedProperty keeps the events that carry the marker.
Listed(e, timeMin) == e.marker /\ e.end > timeMin

\* The answers of events().list with orderBy='startTime': every order of the
\* listed events by start (events of equal start in either order).  The
\* calendar holds far fewer events than maxResults.
ListResults(cal, timeMin) ==
    LET S == { e \in cal : Listed(e, timeMin) }
        n == Cardinality(S)
    IN  { s \in [1..n -> S] :
            /\ \A i, j \in 1..n : s[i] = s[j] => i = j
            /\ \A i, j \in 1..n : i < j => s[i].start <= s[j].start }

MainDone(how) ==
    /\ pc' = "done"
    /\ exit' = how
    /\ UNCHANGED <<calendar, nextId, site, now, run, attempt, sleeps,
                   login_success, appointments, future_appointments,
                   future_events, appointment_id_to_appointment,
                   event_appointment_id_to_event, events_to_delete, upsert_idx,
                   compared, calls, notes, faults, processCalled, calAtStart,
                   prev, idA, idB, idOut>>

\* Lines 489-491: sys.exit(1).
MainExitLoginFailed ==
    /\ pc = "main"
    /\ MainGate(login_success, appointments) = "exit1"
    /\ MainDone("exit1")

\* Lines 493-495: sys.exit(0).
MainExitNoAppointments ==
    /\ pc = "main"
    /\ MainGate(login_success, appointments) = "exit0"
    /\ MainDone("exit0")

\* Lines 506-507: strptime raises on a row; the exception leaves main.
MainParseError ==
    /\ pc = "main"
    /\ MainGate(login_success, appointments) = "continue"
    /\ \E i \in 1..Len(appointments) : ~RowParses(appointments[i])
    /\ MainDone("exception")

\* Line 519: the list request raises; the exception leaves main.
MainFetchFails ==
    /\ pc = "main"
    /\ MainGate(login_success, appointments) = "continue"
    /\ \A i \in 1..Len(appointments) : RowParses(appointments[i])
    /\ faults < MaxFaults
    /\ faults' = faults + 1
    /\ pc' = "done"
    /\ exit' = "exception"
    /\ UNCHANGED <<calendar, nextId, site, now, run, attempt, sleeps,
                   login_success, appointments, future_appointments,
                   future_events, appointment_id_to_appointment,
                   event_appointment_id_to_event, events_to_delete, upsert_idx,
                   compared, calls, notes, processCalled, calAtStart, prev,
                   idA, idB, idOut>>

\* Lines 498-525: the future appointments, the listed events, and the call of
\* process_calendar_events when there is a future appointment.
MainPrepare ==
    /\ pc = "main"
    /\ MainGate(login_success, appointments) = "continue"
    /\ \A i \in 1..Len(appointments) : RowParses(appointments[i])
    /\ future_appointments' = FutureAppointments(appointments, now)
    /\ future_events' \in ListResults(calendar, now)
    /\ IF future_appointments' # << >>
         THEN pc' = "process" /\ UNCHANGED exit
         ELSE pc' = "done" /\ exit' = "returned"
    /\ UNCHANGED <<calendar, nextId, site, now, run, attempt, sleeps,
                   login_success, appointments, appointment_id_to_appointment,
                   event_appointment_id_to_event, events_to_delete, upsert_idx,
                   compared, calls, notes, faults, processCalled, calAtStart,
                   prev, idA, idB, idOut>>

\* ------------------------------------------- process_calendar_events
\* A variant of the dict store that keeps the first value of a key.
DictPut_KeepFirst(d, a) ==
    IF \E i \in 1..Len(d) : d[i].appointment_id = a.appointment_id
      THEN d
      ELSE Append(d, a)

\* d[a['appointment_id']] = a on a dict kept as the sequence of its values: a
\* key already present keeps its place and takes the new value.
DictPut(d, a) ==
    IF \E i \in 1..Len(d) : d[i].appointment_id = a.appointment_id
      THEN [i \in 1..Len(d) |->
              IF d[i].appointment_id = a.appointment_id THEN a ELSE d[i]]
      ELSE Append(d, a)

\* Line 531: {appt['appointment_id']: appt for appt in future_appointments}.
RECURSIVE AppointmentDict(_, _)
AppointmentDict(list, d) ==
    IF list = << >> THEN d
    ELSE AppointmentDict(Tail(list), DictPut(d, Head(list)))

DictKeys(d) == { d[i].appointment_id : i \in 1..Len(d) }

MapPut(m, k, v) == [x \in (DOMAIN m) \cup {k} |-> IF x = k THEN v ELSE m[x]]

\* Line 538: the events that enter the dict.
Mapped(e, current_date) == e.appointment_id # << >> /\ e.start >= current_date

\* Lines 532-539.
RECURSIVE EventDict(_, _, _)
EventDict(events, current_date, m) ==
    IF events = << >> THEN m
    ELSE LET e == Head(events)
         IN  EventDict(Tail(events), current_date,
                       IF Mapped(e, current_date)
                         THEN MapPut(m, e.appointment_id, e) ELSE m)

\* A variant that deletes every event of the dict.
EventsToDelete_All(existing, desired) == DOMAIN existing

\* A variant that deletes nothing.
EventsToDelete_None(existing, desired) == {}

\* Line 542.
EventsToDelete(existing, desired) == (DOMAIN existing) \ DictKeys(desired)

\* A variant that forgets the location.
needs_update_NoLocation(event, appointment) ==
    \/ event.start # appointment.start_datetime
    \/ event.end # appointment.end_datetime
    \/ Strip(event.description) # Strip(appointment.regie)

\* Lines 374-398.
needs_update(event, appointment) ==
    \/ event.start # appointment.start_datetime
    \/ event.end # appointment.end_datetime
    \/ event.location # appointment.address
    \/ Strip(event.description) # Strip(appointment.regie)

Call(op, eventId, aid, ok, body) ==
    [op |-> op, eventId |-> eventId, aid |-> aid, ok |-> ok, body |-> body]

Note(title, aid, eventId, outcome) ==
    [title |-> title, aid |-> aid, eventId |-> eventId, outcome |-> outcome]

\* What the notifier's request may do: answer 200, answer another status
\* (logged), or raise (requests.post is not wrapped in send_push_notification).
Deliveries == {"sent", "non200", "raised"}

Cost(gwOk, nt) == (IF gwOk THEN 0 ELSE 1) + (IF nt = "sent" THEN 0 ELSE 1)

\* Lines 531-542: the two dicts and the delete set.
ProcessBuild ==
    /\ pc = "process"
    /\ processCalled' = TRUE
    /\ appointment_id_to_appointment' = AppointmentDict(future_appointments, << >>)
    /\ event_appointment_id_to_event' = EventDict(future_events, now, EmptyMap)
    /\ events_to_delete' = EventsToDelete(event_appointment_id_to_event',
                                          appointment_id_to_appointment')
    /\ upsert_idx' = 1
    /\ pc' = IF events_to_delete' = {} THEN "upsert" ELSE "delete"
    /\ UNCHANGED <<calendar, nextId, site, now, run, attempt, sleeps,
                   login_success, appointments, future_appointments,
                   future_events, compared, calls, notes, faults, exit,
                   calAtStart, prev, idA, idB, idOut>>

\* Lines 543-554: one pass of the delete loop.  delete_google_calendar_event
\* catches the gateway's exception; the notification is sent in either case and
\* an exception of its request leaves process_calendar_events.
DeleteEvent(aid, gwOk, nt) ==
    /\ pc = "delete"
    /\ aid \in events_to_delete
    /\ faults + Cost(gwOk, nt) <= MaxFaults
    /\ faults' = faults + Cost(gwOk, nt)
    /\ LET event == event_appointment_id_to_event[aid]
       IN  /\ calls' = Append(calls, Call("delete", event.id, aid, gwOk, NoBody))
           /\ calendar' = IF gwOk THEN { e \in calendar : e.id # event.id }
                                  ELSE calendar
           /\ notes' = Append(notes, Note("Appointment Cancelled", aid, event.id, nt))
    /\ events_to_delete' = events_to_delete \ {aid}
    /\ IF nt = "raised"
         THEN pc' = "done" /\ exit' = "exception"
         ELSE /\ pc' = IF events_to_delete' = {} THEN "upsert" ELSE "delete"
              /\ UNCHANGED exit
    /\ UNCHANGED <<nextId, site, now, run, attempt, sleeps, login_success,
                   appointments, future_appointments, future_events,
                   appointment_id_to_appointment, event_appointment_id_to_event,
                   upsert_idx, compared, processCalled, calAtStart, prev,
                   idA, idB, idOut>>

\* The second loop moves to the next key, or the function returns.
UpsertAdvance ==
    /\ upsert_idx' = upsert_idx + 1
    /\ IF upsert_idx' > Len(appointment_id_to_appointment)
         THEN pc' = "done" /\ exit' = "returned"
         ELSE UNCHANGED <<pc, exit>>

UpsertRaise ==
    /\ upsert_idx' = upsert_idx + 1
    /\ pc' = "done"
    /\ exit' = "exception"

Current == appointment_id_to_appointment[upsert_idx]

\* Lines 557-559: the key has an event and needs_update is false.
UpsertUnchanged ==
    /\ pc = "upsert"
    /\ Current.appointment_id \in DOMAIN event_appointment_id_to_event
    /\ ~needs_update(event_appointment_id_to_event[Current.appointment_id], Current)
    /\ compared' = compared \cup {Current.appointment_id}
    /\ UpsertAdvance
    /\ UNCHANGED <<calendar, nextId, site, now, run, attempt, sleeps,
                   login_success, appointments, future_appointments,
                   future_events, appointment_id_to_appointment,
                   event_appointment_id_to_event, events_to_delete, calls,
                   notes, faults, processCalled, calAtStart, prev, idA, idB, idOut>>

\* Lines 557-561 and 322-371: the key has an event and needs_update is true.
\* The update and its notification are inside one try: a failed update sends
\* nothing, and an exception of the notifier is caught there too.
UpdateEvent(gwOk, nt) ==
    /\ pc = "upsert"
    /\ Current.appointment_id \in DOMAIN event_appointment_id_to_event
    /\ needs_update(event_appointment_id_to_event[Current.appointment_id], Current)
    /\ gwOk \/ nt = "sent"
    /\ faults + Cost(gwOk, nt) <= MaxFaults
    /\ faults' = faults + Cost(gwOk, nt)
    /\ compared' = compared \cup {Current.appointment_id}
    /\ LET event == event_appointment_id_to_event[Current.appointment_id]
           body == Body(Current, Current.appointment_id)
       IN  /\ calls' = Append(calls, Call("update", event.id,
                                          Current.appointment_id, gwOk, body))
           /\ calendar' = IF gwOk
                            THEN { e \in calendar : e.id # event.id }
                                   \cup {Stored(event.id, body)}
                            ELSE calendar
           /\ notes' = IF gwOk
                         THEN Append(notes, Note("Appointment Updated",
                                Current.appointment_id, event.id, nt))
                         ELSE notes
    /\ UpsertAdvance
    /\ UNCHANGED <<nextId, site, now, run, attempt, sleeps, login_success,
                   appointments, future_appointments, future_events,
                   appointment_id_to_appointment, event_appointment_id_to_event,
                   events_to_delete, processCalled, calAtStart, prev, idA, idB, idOut>>

\* Lines 562-563 and 290-320: the key has no event.  Neither the insert nor
\* the notification is inside a try: an exception of either leaves
\* process_calendar_events.
CreateEvent(gwOk, nt) ==
    /\ pc = "upsert"
    /\ Current.appointment_id \notin DOMAIN event_appointment_id_to_event
    /\ gwOk \/ nt = "sent"
    /\ faults + Cost(gwOk, nt) <= MaxFaults
    /\ faults' = faults + Cost(gwOk, nt)
    /\ LET body == Body(Current, generate_appointment_id(Current))
       IN  /\ calls' = Append(calls, Call("insert", IF gwOk THEN nextId ELSE 0,
                                          Current.appointment_id, gwOk, body))
           /\ calendar' = IF gwOk THEN calendar \cup {Stored(nextId, body)}
                                  ELSE calendar
           /\ nextId' = IF gwOk THEN nextId + 1 ELSE nextId
           /\ notes' = IF gwOk
                         THEN Append(notes, Note("New Appointment Added",
                                Current.appointment_id, nextId, nt))
                         ELSE notes
    /\ IF gwOk /\ nt # "raised" THEN UpsertAdvance ELSE UpsertRaise
    /\ UNCHANGED <<site, now, run, attempt, sleeps, login_success,
                   appointments, future_appointments, future_events,
                   appointment_id_to_appointment, event_appointment_id_to_event,
                   events_to_delete, compared, processCalled, calAtStart, prev,
                   idA, idB, idOut>>

\* --------------------------------------------------------- the runs
\* Whether the listed events that enter the dict carry distinct ids.
DistinctIds(events, current_date) ==
    \A i, j \in 1..Len(events) :
        ( /\ Mapped(events[i], current_date)
          /\ Mapped(events[j], current_date)
          /\ events[i].appointment_id = events[j].appointment_id ) => i = j

AllOk(cs) == \A i \in 1..Len(cs) : cs[i].ok

\* The script is started (again): a new run of main.
StartRun ==
    /\ pc \in {"idle", "done"}
    /\ run \in EarlierRuns
    /\ run' = run + 1
    /\ now' \in { n \in Clock : n >= now }
    /\ prev' = IF /\ pc = "done"
                  /\ processCalled
                  /\ exit = "returned"
                  /\ AllOk(calls)
                  /\ now' = now
                 THEN [clean |-> TRUE,
                       injective |-> DistinctIds(future_events, now),
                       wrote |-> Len(calls) >= 2]
                 ELSE NoPrev
    /\ calAtStart' = calendar
    /\ pc' = "login"
    /\ attempt' = 0
    /\ sleeps' = 0
    /\ login_success' = FALSE
    /\ appointments' = << >>
    /\ future_appointments' = << >>
    /\ future_events' = << >>
    /\ appointment_id_to_appointment' = << >>
    /\ event_appointment_id_to_event' = EmptyMap
    /\ events_to_delete' = {}
    /\ upsert_idx' = 1
    /\ compared' = {}
    /\ calls' = << >>
    /\ notes' = << >>
    /\ faults' = 0
    /\ exit' = "none"
    /\ processCalled' = FALSE
    /\ UNCHANGED <<calendar, nextId, site, idA, idB, idOut>>

Next ==
    \/ StartRun
    \/ LoginAttemptOk
    \/ LoginNoToken
    \/ LoginRequestError
    \/ LoginRejected
    \/ LoginExhausted
    \/ MainExitLoginFailed
    \/ MainExitNoAppointments
    \/ MainParseError
    \/ MainFetchFails
    \/ MainPrepare
    \/ ProcessBuild
    \/ \E aid \in events_to_delete, gwOk \in BOOLEAN, nt \in Deliveries :
         DeleteEvent(aid, gwOk, nt)
    \/ UpsertUnchanged
    \/ \E gwOk \in BOOLEAN, nt \in Deliveries : UpdateEvent(gwOk, nt)
    \/ \E gwOk \in BOOLEAN, nt \in Deliveries : CreateEvent(gwOk, nt)

Spec == Init /\ [][Next]_vars

\* ----------------------------------------------- the identity study
\* The values of a hashed field: strings over a letter and the delimiter.
IdFields == SeqsUpTo({"a", "_"}, MaxField)

InitId ==
    /\ \E d \in IdFields, st \in IdFields, r \in IdFields :
         idA = Row(d, <<"1">>, <<"2">>, st, "X", r)
    /\ \E d \in IdFields, st \in IdFields, r \in IdFields, moved \in BOOLEAN :
         idB = IF moved THEN Row(d, <<"2">>, <<"3">>, st, "Y", r)
                        ELSE Row(d, <<"1">>, <<"2">>, st, "X", r)
    /\ idOut = << >>
    /\ calendar = {}
    /\ calAtStart = {}
    /\ nextId = 1
    /\ site = << >>
    /\ now = 0
    /\ InitRun

\* generate_appointment_id is called on both appointments.
ComputeIds ==
    /\ idOut = << >>
    /\ idOut' = <<generate_appointment_id(idA), generate_appointment_id(idB)>>
    /\ UNCHANGED <<calendar, nextId, site, now, run, pc, calAtStart, prev, idA, idB>>
    /\ UNCHANGED runLocals

NextId == ComputeIds

SpecId == InitId /\ [][NextId]_vars

\* ================================================================ claims
\* What the claims speak about, said without the dicts of the code.
DesiredIds == { future_appointments[i].appointment_id : i \in 1..Len(future_appointments) }

\* The last future appointment of an id, in the order of the list.
LastFor(aid) ==
    LET I == { i \in 1..Len(future_appointments) :
                 future_appointments[i].appointment_id = aid }
    IN  future_appointments[CHOOSE i \in I : \A j \in I : j <= i]

\* The managed events of the calendar that start at current_date or later.
ManagedFuture == { e \in calendar : e.marker /\ e.start >= now }

\* process_calendar_events has returned and every gateway call succeeded.
ReturnedAllOk == pc = "done" /\ processCalled /\ exit = "returned" /\ AllOk(calls)

WrittenIds == { calls[i].eventId : i \in { j \in 1..Len(calls) :
                  calls[j].ok /\ calls[j].op \in {"insert", "update"} } }

\* The listed events that enter the dict carry an id each, and no two the same.
IdsWellFormed ==
    /\ DistinctIds(future_events, now)
    /\ \A i \in 1..Len(future_events) :
         future_events[i].start >= now => future_events[i].appointment_id # << >>

\* C1 as stated, for listed events with well-formed ids already: after a call
\* whose gateway calls all succeed, every desired id has exactly one managed
\* future event, equal to the desired appointment in summary, location,
\* description, start and end, and no managed future event carries another id.
C1_ConvergesAsStated ==
    (ReturnedAllOk /\ IdsWellFormed) =>
        /\ \A aid \in DesiredIds :
             LET a == LastFor(aid)
                 M == { e \in ManagedFuture : e.appointment_id = aid }
             IN  /\ Cardinality(M) = 1
                 /\ \A e \in M :
                      /\ e.summary = a.studio_name
                      /\ e.location = a.address
                      /\ e.description = a.regie
                      /\ e.start = a.start_datetime
                      /\ e.end = a.end_datetime
        /\ \A e \in ManagedFuture : e.appointment_id \in DesiredIds

\* C1 (amended): when the listed events that start at current_date or later carry
\* pairwise distinct appointment_ids, then after a call that returns with every
\* gateway call successful each desired id has exactly one managed future event;
\* its location, start and end are those of the last desired appointment of that
\* id and its description is the note up to surrounding whitespace; summary and
\* the exact description are the desired ones for every event the run inserted or
\* updated; no managed future event carries a non-empty id that is not desired.
C1_Converges ==
    (ReturnedAllOk /\ DistinctIds(future_events, now)) =>
        /\ \A aid \in DesiredIds :
             LET a == LastFor(aid)
                 M == { e \in ManagedFuture : e.appointment_id = aid }
             IN  /\ Cardinality(M) = 1
                 /\ \A e \in M :
                      /\ e.location = a.address
                      /\ Strip(e.description) = Strip(a.regie)
                      /\ e.start = a.start_datetime
                      /\ e.end = a.end_datetime
                      /\ e.id \in WrittenIds =>
                           e.summary = a.studio_name /\ e.description = a.regie
        /\ \A e \in ManagedFuture :
             e.appointment_id # << >> => e.appointment_id \in DesiredIds

\* C1 witness: a call has returned after a successful delete, update and insert,
\* with two rows of one id in the desired list.
C1_Witness ==
    /\ ReturnedAllOk
    /\ DistinctIds(future_events, now)
    /\ \E i, j \in 1..Len(calls) : calls[i].op = "delete" /\ calls[j].op = "insert"
    /\ Len(future_appointments) > Cardinality(DesiredIds)

\* This run follows a run of process_calendar_events that returned with every
\* write successful, at the same reference instant and for the same page.
SecondRunAfterCleanRun == run = 2 /\ prev.clean

\* C2 as stated: a second run after a run whose writes all succeeded, with the
\* same desired appointments and the same reference instant, issues no create,
\* update or delete call and sends no notification.
C2_IdempotentAsStated ==
    SecondRunAfterCleanRun => calls = << >> /\ notes = << >>

\* C2 (amended): the same, when the events the first run listed with a start at
\* current_date or later carried pairwise distinct appointment_ids.
C2_Idempotent ==
    (SecondRunAfterCleanRun /\ prev.injective) => calls = << >> /\ notes = << >>

\* C2 witness: the second run has gone through process_calendar_events and
\* returned, after a first run that wrote to the calendar.
C2_Witness ==
    /\ SecondRunAfterCleanRun
    /\ prev.injective
    /\ prev.wrote
    /\ pc = "done"
    /\ exit = "returned"
    /\ processCalled
    /\ compared # {}

\* The ids of the listed events that enter the dict.
ExistingIds ==
    { future_events[i].appointment_id :
        i \in { j \in 1..Len(future_events) :
                  /\ future_events[j].appointment_id # << >>
                  /\ future_events[j].start >= now } }

CalledIds(op) == { calls[i].aid : i \in { j \in 1..Len(calls) : calls[j].op = op } }

\* C3: the ids that get a delete call, the ids that get an insert call and the
\* ids that are compared are pairwise disjoint and lie in the union of the
\* desired and the existing ids; when the call returns they are the whole
\* union; a delete call is only ever made for an event of an existing id that
\* is not desired.
C3_Partition ==
    processCalled =>
        LET D == CalledIds("delete")
            C == CalledIds("insert")
            U == compared
        IN  /\ D \cap C = {}
            /\ D \cap U = {}
            /\ C \cap U = {}
            /\ D \subseteq ExistingIds \ DesiredIds
            /\ C \subseteq DesiredIds \ ExistingIds
            /\ U \subseteq DesiredIds \cap ExistingIds
            /\ (pc = "done" /\ exit = "returned") =>
                 D \cup C \cup U = DesiredIds \cup ExistingIds
            /\ \A i \in 1..Len(calls) :
                 calls[i].op = "delete" =>
                   \E j \in 1..Len(future_events) :
                      /\ future_events[j].id = calls[i].eventId
                      /\ future_events[j].appointment_id = calls[i].aid
                      /\ future_events[j].appointment_id \notin DesiredIds

\* C3 witness: a call has returned in which one id was deleted, one inserted
\* and one compared.
C3_Witness ==
    /\ pc = "done"
    /\ exit = "returned"
    /\ CalledIds("delete") # {}
    /\ CalledIds("insert") # {}
    /\ compared # {}

\* C4: no step changes or removes an event without the private marker, and
\* every update or delete call names the provider id of an event that carries
\* the marker.
C4_UntaggedUntouched ==
    [][ /\ \A e \in calendar : ~e.marker => e \in calendar'
        /\ \A e \in calendar' : ~e.marker => e \in calendar
        /\ Len(calls') > Len(calls) =>
             LET c == calls'[Len(calls')]
             IN  c.op \in {"update", "delete"} =>
                   \E e \in calendar : e.id = c.eventId /\ e.marker
      ]_vars

\* C4 witness: the calendar holds an unmarked event that carries the
\* appointment_id of an update or delete call of this run.
C4_Witness ==
    \E e \in calendar :
        /\ ~e.marker
        /\ \E i \in 1..Len(calls) :
             /\ calls[i].op \in {"update", "delete"}
             /\ calls[i].ok
             /\ calls[i].aid = e.appointment_id

\* C5: a run whose login failed ends with exit code 1, a run whose page shows
\* no row ends with exit code 0, and such a run has not entered
\* process_calendar_events, has made no gateway call, has sent no notification
\* and has left the calendar as it found it.
C5_EarlyExit ==
    /\ (pc = "done" /\ ~login_success) => exit = "exit1"
    /\ (pc = "done" /\ login_success /\ appointments = << >>) => exit = "exit0"
    /\ exit \in {"exit0", "exit1"} =>
         /\ ~processCalled
         /\ calls = << >>
         /\ notes = << >>
         /\ calendar = calAtStart

\* C5 witness: the login has failed and the run has exited while the page shows
\* rows and the calendar holds managed events.
C5_Witness ==
    /\ exit = "exit1"
    /\ site # << >>
    /\ ManagedFuture # {}

\* Every id of the delete set and of the desired dict has been visited.
AllIdsVisited ==
    /\ events_to_delete = {}
    /\ upsert_idx > Len(appointment_id_to_appointment)

NoDeliveryRaised == \A i \in 1..Len(notes) : notes[i].outcome # "raised"

\* C6 as stated: when process_calendar_events is over and no notification
\* raised, every id of the delete set and of the desired dict has been visited,
\* whatever gateway calls failed.
C6_GatewayFailureIsolated ==
    (pc = "done" /\ processCalled /\ NoDeliveryRaised) => AllIdsVisited

\* The listed event of an existing id that the dict keeps: the last one.
ExistingFor(aid) ==
    LET I == { i \in 1..Len(future_events) :
                 /\ future_events[i].appointment_id = aid
                 /\ future_events[i].start >= now }
    IN  future_events[CHOOSE i \in I : \A j \in I : j <= i]

CallsFor(aid) == { i \in 1..Len(calls) : calls[i].aid = aid }

NotesFor(aid) == { i \in 1..Len(notes) : notes[i].aid = aid }

\* The event and the appointment differ in start, end, location or trimmed
\* description.
Differs(e, a) ==
    \/ e.start # a.start_datetime
    \/ e.end # a.end_datetime
    \/ e.location # a.address
    \/ Strip(e.description) # Strip(a.regie)

\* C7: for an id of both dicts that the second loop has visited: if the event
\* differs from the appointment in start, end, location or trimmed description
\* there is exactly one gateway call for the id, an update of the event's
\* provider id whose body carries the appointment's summary, location,
\* description, start and end, the marker and the same appointment_id;
\* otherwise there is no gateway call and no notification for the id.  When the
\* function returns, every id of both dicts has been visited.
C7_UpdateDecision ==
    /\ \A aid \in compared :
         LET e == ExistingFor(aid)
             a == LastFor(aid)
         IN  IF Differs(e, a)
               THEN /\ Cardinality(CallsFor(aid)) = 1
                    /\ \A i \in CallsFor(aid) :
                         /\ calls[i].op = "update"
                         /\ calls[i].eventId = e.id
                         /\ calls[i].body =
                              [summary |-> a.studio_name, location |-> a.address,
                               description |-> a.regie, start |-> a.start_datetime,
                               end |-> a.end_datetime, marker |-> TRUE,
                               appointment_id |-> aid]
                         /\ calls[i].body.appointment_id = e.appointment_id
               ELSE CallsFor(aid) = {} /\ NotesFor(aid) = {}
    /\ (pc = "done" /\ processCalled /\ exit = "returned") =>
         compared = DesiredIds \cap ExistingIds

\* C7 witness: an update has been made for an event that differs from the
\* appointment in its description alone, and another id was left alone.
C7_Witness ==
    /\ pc = "done"
    /\ exit = "returned"
    /\ \E aid \in compared :
         LET e == ExistingFor(aid)
             a == LastFor(aid)
         IN  /\ e.start = a.start_datetime
             /\ e.end = a.end_datetime
             /\ e.location = a.address
             /\ Strip(e.description) # Strip(a.regie)
             /\ CallsFor(aid) # {}
    /\ \E aid \in compared : CallsFor(aid) = {}

\* The listed events that the dict keeps and whose id is not desired.
StaleKept ==
    { ExistingFor(aid) : aid \in ExistingIds \ DesiredIds }

DeleteCallsOf(eventId) ==
    { i \in 1..Len(calls) : calls[i].op = "delete" /\ calls[i].eventId = eventId }

CancelledNotesOf(eventId) ==
    { i \in 1..Len(notes) :
        notes[i].title = "Appointment Cancelled" /\ notes[i].eventId = eventId }

\* C9 as stated, for listed events with well-formed ids already: in a run of
\* main that ends without an exception, whose login succeeded and whose page
\* showed a row, every listed event that starts at current_date or later and
\* whose id is not a future appointment's has one delete call and one
\* 'cancelled' notification.
C9_StaleDeletedAsStated ==
    ( /\ pc = "done"
      /\ login_success
      /\ appointments # << >>
      /\ exit = "returned"
      /\ IdsWellFormed ) =>
        \A i \in 1..Len(future_events) :
            ( /\ future_events[i].start >= now
              /\ future_events[i].appointment_id \notin DesiredIds ) =>
                /\ Cardinality(DeleteCallsOf(future_events[i].id)) = 1
                /\ Cardinality(CancelledNotesOf(future_events[i].id)) = 1

\* C9 (amended): in a run with a future appointment, once the delete loop is
\* over every event the dict keeps whose id is not desired has exactly one
\* delete call and one 'cancelled' notification; at any time such an event has
\* at most one of each and no other event has any; a run without a future
\* appointment makes no gateway call and sends no notification.
C9_StaleDeleted ==
    /\ ( /\ processCalled
         /\ pc = "upsert" \/ (pc = "done" /\ exit = "returned") ) =>
           \A e \in StaleKept :
               /\ Cardinality(DeleteCallsOf(e.id)) = 1
               /\ Cardinality(CancelledNotesOf(e.id)) = 1
    /\ processCalled =>
         \A e \in StaleKept :
             /\ Cardinality(DeleteCallsOf(e.id)) <= 1
             /\ Cardinality(CancelledNotesOf(e.id)) <= 1
    /\ \A i \in 1..Len(calls) :
         calls[i].op = "delete" => \E e \in StaleKept : e.id = calls[i].eventId
    /\ \A i \in 1..Len(notes) :
         notes[i].title = "Appointment Cancelled" =>
            \E e \in StaleKept : e.id = notes[i].eventId
    /\ (pc = "done" /\ exit = "returned" /\ future_appointments = << >>) =>
         /\ ~processCalled
         /\ calls = << >>
         /\ notes = << >>

\* C9 witness: the delete loop is over after two deletes, and the run went on.
C9_Witness ==
    /\ processCalled
    /\ pc = "done"
    /\ exit = "returned"
    /\ Cardinality(StaleKept) = 2
    /\ \A e \in StaleKept : DeleteCallsOf(e.id) # {}

\* C10 as stated: when process_calendar_events is over and every gateway call
\* succeeded, every id has been visited, whatever the notifier did.
C10_NotifierFailureIgnored ==
    (pc = "done" /\ processCalled /\ AllOk(calls)) => AllIdsVisited

SameTriple(a, b) ==
    a.date = b.date /\ a.studio_name = b.studio_name /\ a.regie = b.regie

HasDelimiter(str) == \E i \in 1..Len(str) : str[i] = "_"

\* C8 as stated, for two appointments of one date already: they get the same id
\* exactly when they agree in studio name and note, for all values of the
\* fields.
C8_IdentityAsStated ==
    (idOut # << >> /\ idA.date = idB.date) =>
        (SameTriple(idA, idB) <=> idOut[1] = idOut[2])

\* C8 (amended): two appointments that agree in date, studio name and note get
\* the same id, whatever their times and addresses; two that differ in one of
\* the three get different ids when neither date nor studio name of either
\* holds the delimiter '_'.
C8_Identity ==
    idOut # << >> =>
        /\ SameTriple(idA, idB) => idOut[1] = idOut[2]
        /\ ( /\ ~SameTriple(idA, idB)
             /\ ~HasDelimiter(idA.date) /\ ~HasDelimiter(idA.studio_name)
             /\ ~HasDelimiter(idB.date) /\ ~HasDelimiter(idB.studio_name) )
             => idOut[1] # idOut[2]

\* C8 witness: the ids of two appointments that differ in the note alone, one
\* note holding the delimiter, have been computed.
C8_Witness ==
    /\ idOut # << >>
    /\ idA.date = idB.date
    /\ idA.studio_name = idB.studio_name
    /\ idA.regie # idB.regie
    /\ HasDelimiter(idB.regie)
    /\ ~HasDelimiter(idA.date)
    /\ ~HasDelimiter(idA.studio_name)
    /\ idA.start_time # idB.start_time

\* The calls of time.sleep(retry_delay) that are behind the loop when its
\* variable is n: one after each failed pass but the last.
SleepsBefore(n) == IF n < max_retries THEN n ELSE max_retries - 1

\* C11: login_with_retry makes at most max_retries passes.  Every step inside
\* it either returns or is a failed pass that moves the loop variable up by
\* one and is followed by exactly one wait of retry_delay, none after the last
\* pass; so when the variable is n, n passes have failed and
\* min(n, max_retries - 1) waits were made.  It returns (True, rows of the
\* page) from a pass that succeeds, that pass being one of the max_retries
\* passes and no pass following it, and (False, None) only when max_retries
\* passes have failed, with max_retries - 1 waits made.  It is entered with
\* the loop variable at 0 and no wait made, and a pass or the return is always
\* possible while it runs.
C11_LoginStep ==
    /\ pc = "login" =>
         /\ attempt \in 0..max_retries
         /\ sleeps = SleepsBefore(attempt)
         /\ pc' \in {"login", "main"}
         /\ ENABLED (LoginAttemptOk \/ LoginNoToken \/ LoginExhausted)
    /\ (pc # "login" /\ pc' = "login") => (attempt' = 0 /\ sleeps' = 0)
    /\ (pc = "login" /\ pc' = "login") =>
         /\ attempt < max_retries
         /\ attempt' = attempt + 1
         /\ sleeps' = sleeps + (IF attempt' < max_retries THEN 1 ELSE 0)
    /\ (pc = "login" /\ pc' = "main" /\ login_success') =>
         /\ attempt < max_retries
         /\ appointments' = site
    /\ (pc = "login" /\ pc' = "main" /\ ~login_success') =>
         /\ attempt = max_retries
         /\ sleeps = max_retries - 1
         /\ appointments' = << >>

C11_BoundedLoginRetry == [][C11_LoginStep]_vars

\* C11 witness: every pass has failed: the loop is over after max_retries
\* passes and max_retries - 1 waits, and (False, None) is about to be returned.
C11_Witness ==
    /\ pc = "login"
    /\ attempt = max_retries
    /\ sleeps = max_retries - 1

\* The gateway operation a notification title announces.
OpOf(title) ==
    IF title = "New Appointment Added" THEN "insert"
    ELSE IF title = "Appointment Updated" THEN "update"
    ELSE "delete"

\* C12 as stated: every notification of a run of process_calendar_events
\* follows a successful gateway call of the same run, of the operation it
\* announces and for the same event (the same appointment id, and for an
\* update or a delete the same provider id); none follows a failed call.  Each
\* handler records its gateway call before its notification, so the call of a
\* notification is already among the calls.
C12_NotificationsReflectChanges ==
    \A i \in 1..Len(notes) :
        \E j \in 1..Len(calls) :
            /\ calls[j].op = OpOf(notes[i].title)
            /\ calls[j].aid = notes[i].aid
            /\ calls[j].op # "insert" => calls[j].eventId = notes[i].eventId
            /\ calls[j].ok

====
